---- MODULE Spec2Model ----
(***************************************************************************)
(* Page objects of the CarSphere UI test harness (pages/base_page.py,      *)
(* pages/login_page.py, pages/dashboard_page.py) driving one browser       *)
(* session.  A scenario calls one Page operation at a time; an operation   *)
(* is a sequence of waiter lookups (WebDriverWait.until) and clicks.  The  *)
(* browser renders the answer to a click some time after the click, so a   *)
(* lookup may poll a page that has not caught up yet.                      *)
(***************************************************************************)
EXTENDS Integers, Sequences, FiniteSets, TLC

\* Polls one WebDriverWait.until makes before it raises TimeoutException.
MaxPolls == 2
\* Largest catalog the target application holds.
MaxCars == 8
\* "if len(delete_buttons) > 6" in delete_last_car.
SafetyFloor == 6
\* Scenarios that run against the same target application.
NumScenarios == 2
\* Most windows one session has open.
MaxWindows == 2
\* Most reviews a car page lists.
MaxReviews == 2
\* Largest decimal digit random.choices draws.
MaxDigit == 1
\* Most users the list of existing users names, the list of all names aside.
MaxUsers == 1

NoAlert == "<none>"
LoggedOut == "You have been logged out."
LoginFailed == "Login Unsuccessful. Please check username and password"
CarDeleted == "Car deleted successfully!"
ReviewAdded == "Review added successfully!"

Makes == {"Tesla123", "ModelY456"}
Models == {"ModelY456", "Tesla123"}
Reviews == {"AI says: this car is great", "Sorry, could not generate a review at this time."}
Credentials == {<<"admin", "admin">>, <<"user3", "user3">>, <<"admin", "1234">>}

VARIABLES
    screen,     \* the screen the browser shows: "blank", "login", "dashboard", "add_car", "car"
    alert,      \* text of the banner in the document, or NoAlert
    domRole,    \* the role the shown document was rendered for
    domCars,    \* catalog entries in the shown document
    review,     \* value of the review-input field
    role,       \* server side: role of the logged-in user, "none" when logged out
    catalog,    \* server side: number of cars
    pending,    \* the page the browser will render next, answer to the last click
    aiPending,  \* an AI review was requested and not delivered yet
    op,         \* the Page operation the scenario is in, "idle" between calls
    pc,         \* the source line of the operation the call is at
    polls,      \* polls made by the wait in progress
    args,       \* arguments of the call
    elems,      \* length of the element list the operation resolved
    typed,      \* locators the current (or last) call typed into, in order
    clicks,     \* clicks of the current (or last) call, in order
    read,       \* banner text the current (or last) call read
    result,   \* what the last call gave the scenario
    scen,       \* per scenario: phase, its driver, the cars its dashboard lists, outcome
    created,    \* number of browsers the fixture has started
    quit,       \* the drivers that were quit
    windows,    \* number of window handles of the session, in order of opening
    opening,    \* a click asked for a new window that is not there yet
    active,     \* per driver object: index of the window it is switched to
    reviews,    \* server side: reviews of the car
    domReviews, \* review entries in the shown document
    existing_users,  \* argument of generate_new_random_username
    random_username, \* its local variable, a string as a sequence of characters
    upc              \* the line generate_new_random_username is at, or how it ended

dom == <<screen, alert, domRole, domCars, review>>
server == <<role, catalog>>
browser == <<dom, server, pending, aiPending>>
call == <<op, pc, polls, args, elems, typed, clicks, read, result>>
fixture == <<scen, created, quit>>
gallery == <<windows, opening, active, reviews, domReviews>>
register == <<existing_users, random_username, upc>>
vars == <<browser, call, fixture, gallery, register>>

NoPage == [screen |-> "none", alert |-> NoAlert]
\* self is the class of the Page object the call is made through.
NoArgs == [a |-> "", b |-> "", self |-> "DashboardPage"]
\* after: what the scenario did just before the call (see After).
NoResult == [op |-> "none", kind |-> "none", val |-> "", n |-> 0, after |-> "other"]

----------------------------------------------------------------------------
\* The document: which locators match, and how many nodes.

\* Welcome banner of a successful login.
Welcome(r) == IF r = "admin" THEN "Welcome, Administrator Manager!" ELSE "Welcome, user3 user3!"

\* The role a credential pair logs in as.
RoleOf(u, p) ==
    IF u = "admin" /\ p = "admin" THEN "admin"
    ELSE IF u = "user3" /\ p = "user3" THEN "user"
    ELSE "none"

\* Banner the application shows for an added car.
ServerAddBanner(make, model) == "Car " \o make \o " " \o model \o " added successfully!"

\* .alert.alert-danger or .alert.alert-success
AlertClass(text) ==
    IF text = NoAlert THEN "none"
    ELSE IF text = LoginFailed THEN "danger"
    ELSE "success"

\* Number of nodes a locator matches in the shown document.
\* The Page classes: DashboardPage(LoginPage), RegisterPage(LoginPage).
PageClasses == {"LoginPage", "DashboardPage", "RegisterPage"}

\* The Page constructor as it would be if every Page started a browser of
\* its own.
DriverOf_own(k) == k

\* self.driver of a Page object of class k: the scenarios construct all their
\* Pages with the one driver of the fixture, and BasePage.__init__ keeps it.
DriverOf(k) == "driver"

Drivers == {DriverOf(k) : k \in PageClasses}

\* The window the Page the call is made through looks at; window 1 holds the
\* target application, a later window the external page a link opened.
ActiveWindow == active[DriverOf(args.self)]

WindowUrl(w) ==
    IF w = 1 THEN "https://carsphere.onrender.com/"
    ELSE "https://www.linkedin.com/in/israel-wasserman"

Matches(loc) ==
    CASE ActiveWindow # 1 -> 0
      [] loc \in {"USERNAME_INPUT", "PASSWORD_INPUT", "LOGIN_BUTTON"} ->
            IF screen = "login" THEN 1 ELSE 0
      [] loc = "LINKEDIN_ICON" -> IF screen # "blank" THEN 1 ELSE 0
      [] loc = "USERS_REVIEW_AREA" -> IF screen = "car" THEN domReviews ELSE 0
      [] loc = "LOGOUT_BUTTON" -> IF domRole # "none" THEN 1 ELSE 0
      [] loc = "ADD_NEW_CAR_BUTTON" -> IF domRole = "admin" THEN 1 ELSE 0
      [] loc = "DELETE_CAR_BUTTONS" ->
            IF screen = "dashboard" /\ domRole = "admin" THEN domCars ELSE 0
      [] loc = "LAST_CAR_ELEMENT_LOCATION" ->
            IF screen = "dashboard" THEN domCars ELSE 0
      [] loc \in {"MAKE_INPUT", "MODEL_INPUT", "DIRECTOR_INPUT", "MAIN_SETTINGS_INPUT",
                  "DESCRIPTION_INPUT", "IMAGE_INPUT", "SUBMIT_BUTTON"} ->
            IF screen = "add_car" THEN 1 ELSE 0
      [] loc \in {"AI_REVIEW_BUTTON", "AI_REVIEW_INPUT", "REVIEW_INPUT"} ->
            IF screen = "car" THEN 1 ELSE 0
      [] loc = "SUBMIT_REVIEW_BUTTON" ->
            \* (By.ID, "submit") is also the id of the add-car form's submit input
            IF screen \in {"car", "add_car"} THEN 1 ELSE 0
      [] loc = "SUCCESS_MESSAGE" -> IF AlertClass(alert) = "success" THEN 1 ELSE 0
      [] loc = "UNSUCCESSFUL_ALERT_MESSAGE" -> IF AlertClass(alert) = "danger" THEN 1 ELSE 0
      [] OTHER -> 0

\* Whether the first node a locator matches is displayed: the application
\* renders the nodes of these pages displayed, and leaves out what a role may
\* not use.
Displayed(loc) == Matches(loc) > 0

----------------------------------------------------------------------------
\* The waiter (BasePage.wait) and the three lookups built on it.

\* WebDriverWait.until(method): the method's value when it is truthy at this
\* poll, TimeoutException when this was the last poll, else sleep and poll again.
until(truthy, value) ==
    IF truthy THEN [kind |-> "value", n |-> value]
    ELSE IF polls + 1 >= MaxPolls THEN [kind |-> "TimeoutException", n |-> 0]
    ELSE [kind |-> "sleep", n |-> 0]

\* find_element as it would be if a timed-out resolution gave a missing element.
find_element_null(loc) ==
    IF Matches(loc) = 0 /\ polls + 1 >= MaxPolls
    THEN [kind |-> "value", n |-> 0]
    ELSE until(Matches(loc) > 0, 1)

\* EC.presence_of_element_located: the first matching node.
find_element(loc) == until(Matches(loc) > 0, 1)

\* find_elements as it would be if a zero-node resolution ended in an empty list.
find_elements_empty(loc) ==
    IF Matches(loc) = 0 /\ polls + 1 >= MaxPolls
    THEN [kind |-> "value", n |-> 0]
    ELSE until(Matches(loc) > 0, Matches(loc))

\* EC.presence_of_all_elements_located: the list of matching nodes; an empty
\* list is falsy, so the waiter keeps polling.
find_elements(loc) == until(Matches(loc) > 0, Matches(loc))

\* is_element_visible without its except clause.
is_element_visible_raises(loc) ==
    LET r == until(Displayed(loc), 1) IN
    CASE r.kind = "value" -> [kind |-> "bool", val |-> "True"]
      [] r.kind = "TimeoutException" -> [kind |-> "TimeoutException", val |-> ""]
      [] OTHER -> [kind |-> "sleep", val |-> ""]

\* EC.visibility_of_element_located under try/except TimeoutException.
is_element_visible(loc) ==
    LET r == until(Displayed(loc), 1) IN
    CASE r.kind = "value" -> [kind |-> "bool", val |-> "True"]
      [] r.kind = "TimeoutException" -> [kind |-> "bool", val |-> "False"]
      [] OTHER -> [kind |-> "sleep", val |-> ""]

----------------------------------------------------------------------------
\* The target application: what a click asks of it and what the browser
\* renders afterwards.

AddBanners == {ServerAddBanner(m, d) : m \in Makes, d \in Models}

\* The browser sends the request of a click; the server acts on it at once and
\* the answer page is rendered later (Render).
Click(loc, i) ==
    /\ clicks' = Append(clicks, <<loc, i>>)
    /\ UNCHANGED dom
    /\ CASE loc = "LOGIN_BUTTON" ->
              LET r == RoleOf(args.a, args.b) IN
              /\ role' = IF r # "none" THEN r ELSE role
              /\ pending' = IF r # "none"
                            THEN [screen |-> "dashboard", alert |-> Welcome(r)]
                            ELSE [screen |-> "login", alert |-> LoginFailed]
              /\ UNCHANGED <<catalog, aiPending>>
         [] loc = "LOGOUT_BUTTON" ->
              /\ role' = "none"
              /\ pending' = [screen |-> "login", alert |-> LoggedOut]
              /\ UNCHANGED <<catalog, aiPending>>
         [] loc = "ADD_NEW_CAR_BUTTON" ->
              /\ pending' = [screen |-> "add_car", alert |-> NoAlert]
              /\ UNCHANGED <<server, aiPending>>
         [] loc = "LAST_CAR_ELEMENT_LOCATION" ->
              /\ pending' = [screen |-> "car", alert |-> NoAlert]
              /\ UNCHANGED <<server, aiPending>>
         [] loc = "SUBMIT_REVIEW_BUTTON" /\ screen = "car" ->
              /\ pending' = [screen |-> "car",
                             alert |-> IF role # "none" THEN ReviewAdded ELSE NoAlert]
              /\ UNCHANGED <<server, aiPending>>
         [] loc \in {"SUBMIT_BUTTON", "SUBMIT_REVIEW_BUTTON"} ->
              \/ /\ role = "admin" /\ catalog < MaxCars
                 /\ catalog' = catalog + 1
                 /\ \E b \in AddBanners : pending' = [screen |-> "dashboard", alert |-> b]
                 /\ UNCHANGED <<role, aiPending>>
              \/ /\ pending' = [screen |-> "add_car", alert |-> NoAlert]
                 /\ UNCHANGED <<server, aiPending>>
         [] loc = "DELETE_CAR_BUTTONS" ->
              \* control i names car i; a car that is gone is not deleted again
              \/ /\ role = "admin" /\ catalog > 0 /\ i <= catalog
                 /\ catalog' = catalog - 1
                 /\ pending' = [screen |-> "dashboard", alert |-> CarDeleted]
                 /\ UNCHANGED <<role, aiPending>>
              \/ /\ pending' = [screen |-> "dashboard", alert |-> NoAlert]
                 /\ UNCHANGED <<server, aiPending>>
         [] loc = "AI_REVIEW_BUTTON" ->
              /\ aiPending' = TRUE
              /\ UNCHANGED <<server, pending>>
         [] OTHER -> UNCHANGED <<server, pending, aiPending>>

\* The browser renders the answer to the last click.
Render ==
    /\ pending # NoPage
    /\ screen' = pending.screen
    /\ alert' = pending.alert
    /\ domRole' = role
    /\ domCars' = catalog
    /\ review' = ""
    /\ pending' = NoPage
    /\ aiPending' = FALSE
    /\ UNCHANGED <<server, call>>

\* The external AI service delivers the review into the review field.
Generate ==
    /\ aiPending
    /\ \E r \in Reviews : review' = r
    /\ aiPending' = FALSE
    /\ UNCHANGED <<screen, alert, domRole, domCars, server, pending, call>>

----------------------------------------------------------------------------
\* Steps shared by the Page operations.

\* time.sleep(poll) inside WebDriverWait.until
Sleep ==
    /\ polls' = polls + 1
    /\ UNCHANGED <<browser, op, pc, args, elems, typed, clicks, read, result>>

\* The call ends and the scenario gets kind/val/n.
Finish(kind, val, n) ==
    /\ result' = [op |-> op, kind |-> kind, val |-> val, n |-> n, after |-> result.after]
    /\ op' = "idle"
    /\ pc' = 0
    /\ polls' = 0

\* TimeoutException leaves the operation uncaught.
Raise ==
    /\ Finish("TimeoutException", "", 0)
    /\ UNCHANGED <<browser, args, elems, typed, clicks, read>>

\* TypeInto as it would be if a field that is not found were skipped.
TypeInto_skipping(loc, next) ==
    LET r == find_element(loc) IN
    CASE r.kind = "sleep" -> Sleep
      [] OTHER ->
           /\ typed' = IF r.kind = "value" THEN Append(typed, loc) ELSE typed
           /\ pc' = next
           /\ polls' = 0
           /\ UNCHANGED <<browser, op, args, elems, clicks, read, result>>

\* self.find_element(*loc).send_keys(text), then on to line next
TypeInto(loc, next) ==
    LET r == find_element(loc) IN
    CASE r.kind = "sleep" -> Sleep
      [] r.kind = "TimeoutException" -> Raise
      [] OTHER ->
           /\ typed' = Append(typed, loc)
           /\ pc' = next
           /\ polls' = 0
           /\ UNCHANGED <<browser, op, args, elems, clicks, read, result>>

\* self.find_element(*loc).click() as the last statement: returns None
ClickAndReturn(loc) ==
    LET r == find_element(loc) IN
    CASE r.kind = "sleep" -> Sleep
      [] r.kind = "TimeoutException" -> Raise
      [] OTHER ->
           /\ Click(loc, 0)
           /\ Finish("None", "", 0)
           /\ UNCHANGED <<args, elems, typed, read>>

\* return self.find_element(*loc).text
ReadText(loc) ==
    LET r == find_element(loc) IN
    CASE r.kind = "sleep" -> Sleep
      [] r.kind = "TimeoutException" -> Raise
      [] OTHER ->
           /\ read' = alert
           /\ Finish("str", alert, 0)
           /\ UNCHANGED <<browser, args, elems, typed, clicks>>

----------------------------------------------------------------------------
\* LoginPage (pages/login_page.py)

\* self.driver.get(self.url): returns when the login page is loaded.
\* The locators each class defines in its own body, as (By, selector).
LoginPageAttrs ==
    [USERNAME_INPUT |-> <<"xpath", "//div/input[@id='username']">>,
     PASSWORD_INPUT |-> <<"xpath", "//div/input[@id='password']">>,
     LOGIN_BUTTON |-> <<"xpath", "//form/button[@type='submit']">>,
     SUCCESS_ALERT_MESSAGE |-> <<"css selector", ".alert.alert-success">>,
     UNSUCCESSFUL_ALERT_MESSAGE |-> <<"css selector", ".alert.alert-danger">>,
     LOGOUT_BUTTON |-> <<"xpath", "//a[contains(text(), 'Sign Out')]">>]

DashboardPageAttrs ==
    [MAIN_BACKGROUND_IMAGE |-> <<"tag name", "body">>,
     BRANDING_ICON |-> <<"class name", "branding-icon">>,
     LINKEDIN_ICON |-> <<"xpath", "//p/a/img[@class='linkedin-icon']">>,
     ADD_NEW_CAR_BUTTON |-> <<"xpath", "//nav/a[@href='/add_car']">>,
     DELETE_CAR_BUTTONS |->
         <<"xpath", "//div[@class='car-item']/form/button[@class='btn btn-danger']">>,
     SUCCESS_MESSAGE |-> <<"css selector", ".alert.alert-success">>,
     MAKE_INPUT |-> <<"xpath", "//input[@id='make']">>,
     MODEL_INPUT |-> <<"xpath", "//input[@id='model']">>,
     YEAR_SELECT |-> <<"xpath", "//select/option">>,
     DIRECTOR_INPUT |-> <<"xpath", "//input[@id='director']">>,
     MAIN_SETTINGS_INPUT |-> <<"id", "main_settings">>,
     DESCRIPTION_INPUT |-> <<"xpath", "//div/textarea[@name='description']">>,
     IMAGE_INPUT |-> <<"xpath", "//input[@id='image_file']">>,
     SUBMIT_BUTTON |-> <<"xpath", "//input[@id='submit']">>,
     LAST_CAR_ELEMENT_LOCATION |-> <<"xpath", "//div/div/div/a">>,
     REVIEW_INPUT |-> <<"xpath", "//form/textarea">>,
     SUBMIT_REVIEW_BUTTON |-> <<"id", "submit">>,
     USERS_REVIEW_AREA |-> <<"xpath", "//ul/li">>,
     AI_REVIEW_BUTTON |-> <<"id", "ai-review-button">>,
     AI_REVIEW_INPUT |-> <<"id", "review-input">>]

\* RegisterPage as it would be with a sign-in button locator of its own.
RegisterPageAttrs_divergent ==
    [NAV_LINKS |-> <<"xpath", "//nav/a">>,
     FIRST_NAME |-> <<"xpath", "//input[@id='firstname']">>,
     LAST_NAME |-> <<"xpath", "//input[@id='lastname']">>,
     USERNAME |-> <<"xpath", "//input[@id='username']">>,
     PASSWORD |-> <<"xpath", "//input[@id='password']">>,
     CONFIRM_PASSWORD |-> <<"xpath", "//input[@id='confirm_password']">>,
     SUBMIT_BUTTON |-> <<"xpath", "//button[text()='Sign Up']">>,
     LOGIN_BUTTON |-> <<"xpath", "//button[text()='Sign Up']">>]

RegisterPageAttrs ==
    [NAV_LINKS |-> <<"xpath", "//nav/a">>,
     FIRST_NAME |-> <<"xpath", "//input[@id='firstname']">>,
     LAST_NAME |-> <<"xpath", "//input[@id='lastname']">>,
     USERNAME |-> <<"xpath", "//input[@id='username']">>,
     PASSWORD |-> <<"xpath", "//input[@id='password']">>,
     CONFIRM_PASSWORD |-> <<"xpath", "//input[@id='confirm_password']">>,
     SUBMIT_BUTTON |-> <<"xpath", "//button[text()='Sign Up']">>]

OwnAttrs(k) ==
    CASE k = "LoginPage" -> LoginPageAttrs
      [] k = "DashboardPage" -> DashboardPageAttrs
      [] OTHER -> RegisterPageAttrs

\* self.NAME on an object of class k: the class's own attribute, else the one
\* inherited from LoginPage.
getattr(k, name) ==
    IF name \in DOMAIN OwnAttrs(k) THEN OwnAttrs(k)[name] ELSE LoginPageAttrs[name]

\* The four locators login and logout use.
AuthLocators == {"USERNAME_INPUT", "PASSWORD_INPUT", "LOGIN_BUTTON", "LOGOUT_BUTTON"}

\* The nodes a (By, selector) value of login or logout addresses: those of the
\* LoginPage locator with that value, else whatever the selector itself names.
Node(v) ==
    IF \E n \in AuthLocators : LoginPageAttrs[n] = v
    THEN CHOOSE n \in AuthLocators : LoginPageAttrs[n] = v
    ELSE v[2]

\* *self.NAME as login and logout pass it to find_element
Locator(name) == Node(getattr(args.self, name))

navigate_to_login_page ==
    /\ op = "navigate_to_login_page"
    /\ screen' = "login"
    /\ alert' = NoAlert
    /\ domRole' = role
    /\ domCars' = catalog
    /\ review' = ""
    /\ pending' = NoPage
    /\ aiPending' = FALSE
    /\ Finish("None", "", 0)
    /\ UNCHANGED <<server, args, elems, typed, clicks, read>>

\* login as it would be if it ended by reading the outcome banner.
login_reading_outcome ==
    /\ op = "login"
    /\ CASE pc = 24 -> TypeInto(Locator("USERNAME_INPUT"), 25)
         [] pc = 25 -> TypeInto(Locator("PASSWORD_INPUT"), 26)
         [] pc = 26 ->
              LET r == find_element(Locator("LOGIN_BUTTON")) IN
              CASE r.kind = "sleep" -> Sleep
                [] r.kind = "TimeoutException" -> Raise
                [] OTHER ->
                     /\ Click(Locator("LOGIN_BUTTON"), 0)
                     /\ pc' = 27
                     /\ polls' = 0
                     /\ UNCHANGED <<op, args, elems, typed, read, result>>
         [] OTHER -> ReadText("SUCCESS_MESSAGE")

login ==
    /\ op = "login"
    /\ CASE pc = 24 -> TypeInto(Locator("USERNAME_INPUT"), 25)
         [] pc = 25 -> TypeInto(Locator("PASSWORD_INPUT"), 26)
         [] OTHER -> ClickAndReturn(Locator("LOGIN_BUTTON"))

get_success_alert_message ==
    /\ op = "get_success_alert_message"
    /\ ReadText("SUCCESS_MESSAGE")

get_unsuccessful_alert_message ==
    /\ op = "get_unsuccessful_alert_message"
    /\ ReadText("UNSUCCESSFUL_ALERT_MESSAGE")

logout ==
    /\ op = "logout"
    /\ ClickAndReturn(Locator("LOGOUT_BUTTON"))

----------------------------------------------------------------------------
\* DashboardPage (pages/dashboard_page.py)

\* Python's bool as the scenario sees it.
PyBool(b) == IF b THEN "True" ELSE "False"

\* The confirmation with make and model interpolated the wrong way round.
ExpectedAddMessage_swapped(make, model) == "Car " \o model \o " " \o make \o " added successfully!"

\* f"Car {make} {model} added successfully!"
ExpectedAddMessage(make, model) == "Car " \o make \o " " \o model \o " added successfully!"

\* delete_buttons[0]
FirstIndex(n) == 1

\* delete_buttons[-1]: the last of the n resolved controls
LastIndex(n) == n

\* The check as it would be with >= in place of >.
AboveSafetyFloor_inclusive(n) == n >= SafetyFloor

\* len(delete_buttons) > 6
AboveSafetyFloor(n) == n > SafetyFloor

\* is_add_new_car_visible as it would be if it probed the sign-out link.
is_add_new_car_visible_other_locator ==
    /\ op = "is_add_new_car_visible"
    /\ LET r == is_element_visible("LOGOUT_BUTTON") IN
       CASE r.kind = "sleep" -> Sleep
         [] OTHER ->
              /\ Finish(r.kind, r.val, 0)
              /\ UNCHANGED <<browser, args, elems, typed, clicks, read>>

is_add_new_car_visible ==
    /\ op = "is_add_new_car_visible"
    /\ LET r == is_element_visible("ADD_NEW_CAR_BUTTON") IN
       CASE r.kind = "sleep" -> Sleep
         [] OTHER ->
              /\ Finish(r.kind, r.val, 0)
              /\ UNCHANGED <<browser, args, elems, typed, clicks, read>>

\* are_delete_buttons_visible without its except clause.
are_delete_buttons_visible_uncaught ==
    /\ op = "are_delete_buttons_visible"
    /\ LET r == find_elements("DELETE_CAR_BUTTONS") IN
       CASE r.kind = "sleep" -> Sleep
         [] r.kind = "TimeoutException" -> Raise
         [] OTHER ->
              /\ elems' = r.n
              /\ Finish("bool", PyBool(r.n > 0), 0)
              /\ UNCHANGED <<browser, args, typed, clicks, read>>

are_delete_buttons_visible ==
    /\ op = "are_delete_buttons_visible"
    /\ LET r == find_elements("DELETE_CAR_BUTTONS") IN
       CASE r.kind = "sleep" -> Sleep
         [] r.kind = "TimeoutException" ->
              /\ Finish("bool", "False", 0)
              /\ UNCHANGED <<browser, args, elems, typed, clicks, read>>
         [] OTHER ->
              /\ elems' = r.n
              /\ Finish("bool", PyBool(r.n > 0), 0)
              /\ UNCHANGED <<browser, args, typed, clicks, read>>

add_new_car ==
    /\ op = "add_new_car"
    /\ CASE pc = 48 -> TypeInto("MAKE_INPUT", 49)
         [] pc = 49 -> TypeInto("MODEL_INPUT", 51)
         [] pc = 51 ->
              /\ Click("YEAR_SELECT", 1)
              /\ pc' = 52
              /\ UNCHANGED <<op, polls, args, elems, typed, read, result>>
         [] pc = 52 -> TypeInto("DIRECTOR_INPUT", 53)
         [] pc = 53 -> TypeInto("MAIN_SETTINGS_INPUT", 54)
         [] pc = 54 -> TypeInto("DESCRIPTION_INPUT", 55)
         [] pc = 55 -> TypeInto("IMAGE_INPUT", 56)
         [] pc = 56 ->
              LET r == find_element("SUBMIT_BUTTON") IN
              CASE r.kind = "sleep" -> Sleep
                [] r.kind = "TimeoutException" -> Raise
                [] OTHER ->
                     /\ Click("SUBMIT_BUTTON", 0)
                     /\ pc' = 57
                     /\ polls' = 0
                     /\ UNCHANGED <<op, args, elems, typed, read, result>>
         [] OTHER ->
              LET r == find_element("SUCCESS_MESSAGE") IN
              CASE r.kind = "sleep" -> Sleep
                [] r.kind = "TimeoutException" -> Raise
                [] OTHER ->
                     /\ read' = alert
                     /\ Finish("bool", PyBool(alert = ExpectedAddMessage(args.a, args.b)), 0)
                     /\ UNCHANGED <<browser, args, elems, typed, clicks>>

delete_last_car ==
    /\ op = "delete_last_car"
    /\ CASE pc = 60 ->
              LET r == find_elements("DELETE_CAR_BUTTONS") IN
              CASE r.kind = "sleep" -> Sleep
                [] r.kind = "TimeoutException" -> Raise
                [] AboveSafetyFloor(r.n) ->
                     /\ elems' = r.n
                     /\ pc' = 63
                     /\ polls' = 0
                     /\ UNCHANGED <<browser, op, args, typed, clicks, read, result>>
                [] OTHER ->
                     /\ elems' = r.n
                     /\ Finish("bool", "False", 0)
                     /\ UNCHANGED <<browser, args, typed, clicks, read>>
         [] pc = 63 ->
              /\ Click("DELETE_CAR_BUTTONS", LastIndex(elems))
              /\ pc' = 64
              /\ UNCHANGED <<op, polls, args, elems, typed, read, result>>
         [] OTHER ->
              LET r == find_element("SUCCESS_MESSAGE") IN
              CASE r.kind = "sleep" -> Sleep
                [] r.kind = "TimeoutException" ->
                     /\ Finish("bool", "False", 0)
                     /\ UNCHANGED <<browser, args, elems, typed, clicks, read>>
                [] OTHER ->
                     /\ read' = alert
                     /\ Finish("bool", PyBool(alert = CarDeleted), 0)
                     /\ UNCHANGED <<browser, args, elems, typed, clicks>>

add_manual_review ==
    /\ op = "add_manual_review"
    /\ CASE pc = 92 -> TypeInto("REVIEW_INPUT", 93)
         [] OTHER -> ClickAndReturn("SUBMIT_REVIEW_BUTTON")

submit_ai_review ==
    /\ op = "submit_ai_review"
    /\ ClickAndReturn("SUBMIT_REVIEW_BUTTON")

get_success_message ==
    /\ op = "get_success_message"
    /\ ReadText("SUCCESS_MESSAGE")

navigate_to_add_new_car_form ==
    /\ op = "navigate_to_add_new_car_form"
    /\ ClickAndReturn("ADD_NEW_CAR_BUTTON")

navigate_to_last_car_in_catalog ==
    /\ op = "navigate_to_last_car_in_catalog"
    /\ LET r == find_elements("LAST_CAR_ELEMENT_LOCATION") IN
       CASE r.kind = "sleep" -> Sleep
         [] r.kind = "TimeoutException" -> Raise
         [] r.n = 0 ->
              \* cars_element_list[-1] on an empty list
              /\ Finish("IndexError", "", 0)
              /\ UNCHANGED <<browser, args, elems, typed, clicks, read>>
         [] OTHER ->
              /\ elems' = r.n
              /\ Click("LAST_CAR_ELEMENT_LOCATION", LastIndex(r.n))
              /\ Finish("None", "", 0)
              /\ UNCHANGED <<args, typed, read>>

\* wait is asyncio.wait (dashboard_page.py line 2): calling it builds a
\* coroutine object and runs nothing, so the lambda is never evaluated and the
\* coroutine object is what the method returns.
get_ai_review_by_clicking_ai_review_button ==
    /\ op = "get_ai_review_by_clicking_ai_review_button"
    /\ CASE pc = 100 ->
              LET r == find_element("AI_REVIEW_BUTTON") IN
              CASE r.kind = "sleep" -> Sleep
                [] r.kind = "TimeoutException" -> Raise
                [] OTHER ->
                     /\ Click("AI_REVIEW_BUTTON", 0)
                     /\ pc' = 101
                     /\ polls' = 0
                     /\ UNCHANGED <<op, args, elems, typed, read, result>>
         [] OTHER ->
              /\ Finish("coroutine", "", 0)
              /\ UNCHANGED <<browser, args, elems, typed, clicks, read>>

----------------------------------------------------------------------------
\* BasePage.find_elements called by a scenario on its own.

\* BasePage.find_element called on its own; n is the number of nodes returned.
ElementLocators == {"SUCCESS_ALERT_MESSAGE", "LOGOUT_BUTTON"}

find_element_call ==
    /\ op = "find_element"
    /\ LET r == find_element(args.a) IN
       CASE r.kind = "sleep" -> Sleep
         [] r.kind = "TimeoutException" -> Raise
         [] OTHER ->
              /\ elems' = r.n
              /\ Finish("element", "", r.n)
              /\ UNCHANGED <<browser, args, typed, clicks, read>>

ListLocators == {"DELETE_CAR_BUTTONS", "LAST_CAR_ELEMENT_LOCATION"}

find_elements_call ==
    /\ op = "find_elements"
    /\ LET r == find_elements(args.a) IN
       CASE r.kind = "sleep" -> Sleep
         [] r.kind = "TimeoutException" -> Raise
         [] OTHER ->
              /\ elems' = r.n
              /\ Finish("list", "", r.n)
              /\ UNCHANGED <<browser, args, typed, clicks, read>>

----------------------------------------------------------------------------
\* The scenario: one Page operation after another on one session.

\* First source line of each operation.
FirstLine ==
    [navigate_to_login_page |-> 20, login |-> 24, get_success_alert_message |-> 29,
     get_unsuccessful_alert_message |-> 32, logout |-> 35,
     is_add_new_car_visible |-> 38, are_delete_buttons_visible |-> 42,
     add_new_car |-> 48, delete_last_car |-> 60, get_success_message |-> 70,
     navigate_to_add_new_car_form |-> 73, navigate_to_last_car_in_catalog |-> 88,
     get_ai_review_by_clicking_ai_review_button |-> 100, find_elements |-> 18,
     add_manual_review |-> 92, submit_ai_review |-> 105, find_element |-> 15]

Ops == DOMAIN FirstLine

\* The classes whose objects have the operation.
ClassesOf(o) ==
    IF o \in {"navigate_to_login_page", "login", "get_success_alert_message",
              "get_unsuccessful_alert_message", "logout", "find_elements",
              "find_element"}
    THEN PageClasses
    ELSE {"DashboardPage"}

ArgsOf(o) ==
    CASE o = "login" ->
           {[a |-> c[1], b |-> c[2], self |-> k] : c \in Credentials, k \in ClassesOf(o)}
      [] o = "add_new_car" ->
           {[a |-> m, b |-> d, self |-> "DashboardPage"] : m \in Makes, d \in Models}
      [] o = "find_elements" ->
           {[a |-> l, b |-> "", self |-> "DashboardPage"] : l \in ListLocators}
      [] o = "find_element" ->
           {[a |-> l, b |-> "", self |-> "DashboardPage"] : l \in ElementLocators}
      [] OTHER -> {[a |-> "", b |-> "", self |-> k] : k \in ClassesOf(o)}

\* What the scenario did just before the call it makes now: a login with valid
\* credentials that returned, or such an admin login and then a logout that
\* returned.
After ==
    CASE result.op = "login" /\ result.kind = "None" /\ RoleOf(args.a, args.b) = "admin" ->
           "login_admin"
      [] result.op = "login" /\ result.kind = "None" /\ RoleOf(args.a, args.b) = "user" ->
           "login_user"
      [] result.op = "logout" /\ result.kind = "None" /\ result.after = "login_admin" ->
           "login_admin_logout"
      [] OTHER -> "other"

Call ==
    /\ op = "idle"
    /\ \E o \in Ops :
          /\ op' = o
          /\ pc' = FirstLine[o]
          /\ \E x \in ArgsOf(o) : args' = x
    /\ polls' = 0
    /\ elems' = 0
    /\ typed' = <<>>
    /\ clicks' = <<>>
    /\ read' = NoAlert
    /\ result' = [NoResult EXCEPT !.after = After]
    /\ UNCHANGED browser

\* The scenarios, and a scenario that has not started.
Scenarios == 1..NumScenarios
NoScenario == [phase |-> "new", driver |-> 0, shown |-> 0, outcome |-> "none"]

\* No call of generate_new_random_username yet.
NoUsers == [kind |-> "none", users |-> <<>>, text |-> <<>>]

Init ==
    /\ screen = "blank"
    /\ alert = NoAlert
    /\ domRole = "none"
    /\ domCars = 0
    /\ review = ""
    /\ role = "none"
    /\ catalog \in 0..MaxCars
    /\ pending = NoPage
    /\ aiPending = FALSE
    /\ op = "idle"
    /\ pc = 0
    /\ polls = 0
    /\ args = NoArgs
    /\ elems = 0
    /\ typed = <<>>
    /\ clicks = <<>>
    /\ read = NoAlert
    /\ result = NoResult
    /\ scen = [s \in Scenarios |-> NoScenario]
    /\ created = 0
    /\ quit = {}
    /\ windows = 1
    /\ opening = FALSE
    /\ active = [d \in Drivers |-> 1]
    /\ reviews = 0
    /\ domReviews = 0
    /\ existing_users = NoUsers
    /\ random_username = <<>>
    /\ upc = "idle"

\* The variables of the other scenarios stay as they are.
Rest == UNCHANGED <<fixture, gallery, register>>

Next ==
    \/ Call /\ Rest
    \/ Render /\ Rest
    \/ Generate /\ Rest
    \/ navigate_to_login_page /\ Rest
    \/ login /\ Rest
    \/ get_success_alert_message /\ Rest
    \/ get_unsuccessful_alert_message /\ Rest
    \/ logout /\ Rest
    \/ is_add_new_car_visible /\ Rest
    \/ are_delete_buttons_visible /\ Rest
    \/ add_new_car /\ Rest
    \/ delete_last_car /\ Rest
    \/ add_manual_review /\ Rest
    \/ submit_ai_review /\ Rest
    \/ get_success_message /\ Rest
    \/ navigate_to_add_new_car_form /\ Rest
    \/ navigate_to_last_car_in_catalog /\ Rest
    \/ get_ai_review_by_clicking_ai_review_button /\ Rest
    \/ find_elements_call /\ Rest
    \/ find_element_call /\ Rest

Spec == Init /\ [][Next]_vars

----------------------------------------------------------------------------
\* Several scenarios, each with the chrome_driver_setup fixture
\* (tests/conftest.py), run test_015_admin_action_delete_car against one
\* target application.  Each has its own document; the catalog is the
\* application's.

\* The fixture as it would be with session scope: the browser some scenario
\* already has, if there is one.
SharedDriver ==
    IF \E s \in Scenarios : scen[s].driver # 0
    THEN CHOOSE d \in {scen[s].driver : s \in Scenarios} : d # 0
    ELSE created + 1

\* driver = webdriver.Chrome(service=service, options=chrome_options)
NewDriver == created + 1

\* The scenario leaves its body with an outcome; teardown is next.
Leave(s, outcome) ==
    scen' = [scen EXCEPT ![s].phase = "teardown", ![s].outcome = outcome]

\* Fixture setup up to "yield driver".
Setup(s) ==
    /\ scen[s].phase = "new"
    /\ created' = created + 1
    /\ scen' = [scen EXCEPT ![s].phase = "login", ![s].driver = NewDriver]
    /\ UNCHANGED <<browser, call, quit>>

\* navigate_to_login_page, login("admin", "admin"): the dashboard this
\* scenario's browser shows lists the catalog of that moment.
ScenarioLogin(s) ==
    /\ scen[s].phase = "login"
    /\ scen' = [scen EXCEPT ![s].phase = "line60", ![s].shown = catalog]
    /\ UNCHANGED <<browser, call, created, quit>>

\* delete_last_car lines 60-61: the delete controls of the scenario's own
\* document, and the safety check on their number.
ScenarioFind(s) ==
    /\ scen[s].phase = "line60"
    /\ CASE scen[s].shown = 0 -> Leave(s, "raised")
         [] AboveSafetyFloor(scen[s].shown) -> scen' = [scen EXCEPT ![s].phase = "line63"]
         [] OTHER -> Leave(s, "failed")
    /\ UNCHANGED <<browser, call, created, quit>>

\* delete_last_car lines 63-66 and the scenario's assert: the click asks the
\* application to delete the car of the last control; the banner comes only
\* if that car is still in the catalog.
ScenarioClick(s) ==
    /\ scen[s].phase = "line63"
    /\ IF LastIndex(scen[s].shown) <= catalog
       THEN /\ catalog' = catalog - 1
            /\ Leave(s, "passed")
       ELSE /\ catalog' = catalog
            /\ Leave(s, "failed")
    /\ UNCHANGED <<dom, role, pending, aiPending, call, created, quit>>

\* Fixture teardown after the yield: driver.quit(), whatever the outcome.
Teardown(s) ==
    /\ scen[s].phase = "teardown"
    /\ quit' = quit \cup {scen[s].driver}
    /\ scen' = [scen EXCEPT ![s].phase = "done"]
    /\ UNCHANGED <<browser, call, created>>

NextScenarios ==
    \E s \in Scenarios :
        \/ Setup(s) /\ UNCHANGED <<gallery, register>>
        \/ ScenarioLogin(s) /\ UNCHANGED <<gallery, register>>
        \/ ScenarioFind(s) /\ UNCHANGED <<gallery, register>>
        \/ ScenarioClick(s) /\ UNCHANGED <<gallery, register>>
        \/ Teardown(s) /\ UNCHANGED <<gallery, register>>

SpecScenarios == Init /\ [][NextScenarios]_vars

----------------------------------------------------------------------------
\* The gallery scenarios (tests/test_gallery.py): car pages with their
\* reviews, and the external link that opens in a window of its own.

GalleryFirstLine ==
    [navigate_to_login_page |-> 20, login |-> 24, get_success_alert_message |-> 29,
     delete_last_car |-> 60, navigate_to_linkedin_page_and_get_current_url |-> 76,
     navigate_to_last_car_in_catalog |-> 88, add_manual_review |-> 92,
     get_user_new_review |-> 96]

CallGallery ==
    /\ op = "idle"
    /\ \E o \in DOMAIN GalleryFirstLine :
          /\ op' = o
          /\ pc' = GalleryFirstLine[o]
          /\ \E x \in ArgsOf(o) : args' = x
    /\ polls' = 0
    /\ elems' = 0
    /\ typed' = <<>>
    /\ clicks' = <<>>
    /\ read' = NoAlert
    /\ result' = [NoResult EXCEPT !.after = After]
    /\ UNCHANGED <<browser, gallery>>

\* The browser renders the answer to the last click, reviews included.
RenderGallery ==
    /\ Render
    /\ domReviews' = reviews
    /\ UNCHANGED <<windows, opening, active, reviews>>

\* The window a click on an external link asked for appears.
OpenWindow ==
    /\ opening
    /\ windows' = windows + 1
    /\ opening' = FALSE
    /\ UNCHANGED <<browser, call, active, reviews, domReviews>>

\* add_manual_review with what its submit does to the car's reviews.
add_manual_review_gallery ==
    /\ add_manual_review
    /\ reviews' = IF /\ clicks' # clicks
                     /\ screen = "car"
                     /\ role # "none"
                     /\ reviews < MaxReviews
                  THEN reviews + 1
                  ELSE reviews
    /\ UNCHANGED <<windows, opening, active, domReviews>>

get_user_new_review ==
    /\ op = "get_user_new_review"
    /\ LET r == find_elements("USERS_REVIEW_AREA") IN
       CASE r.kind = "sleep" -> Sleep
         [] r.kind = "TimeoutException" -> Raise
         [] r.n = 0 ->
              \* users_review_list[-1] on an empty list
              /\ Finish("IndexError", "", 0)
              /\ UNCHANGED <<browser, args, elems, typed, clicks, read>>
         [] OTHER ->
              /\ elems' = r.n
              /\ Finish("str", "review", LastIndex(r.n))
              /\ UNCHANGED <<browser, args, typed, clicks, read>>
    /\ UNCHANGED gallery

navigate_to_linkedin_page_and_get_current_url ==
    /\ op = "navigate_to_linkedin_page_and_get_current_url"
    /\ CASE pc = 76 ->
              LET r == find_element("LINKEDIN_ICON") IN
              CASE r.kind = "sleep" -> Sleep /\ UNCHANGED gallery
                [] r.kind = "TimeoutException" -> Raise /\ UNCHANGED gallery
                [] OTHER ->
                     /\ Click("LINKEDIN_ICON", 0)
                     /\ opening' = (opening \/ windows < MaxWindows)
                     /\ pc' = 77
                     /\ polls' = 0
                     /\ UNCHANGED <<op, args, elems, typed, read, result>>
                     /\ UNCHANGED <<windows, active, reviews, domReviews>>
         [] OTHER ->
              \* lines 77-79: my_windows[1], switch_to.window, current_url
              IF windows < 2
              THEN /\ Finish("IndexError", "", 0)
                   /\ UNCHANGED <<browser, args, elems, typed, clicks, read, gallery>>
              ELSE /\ active' = [active EXCEPT ![DriverOf(args.self)] = 2]
                   /\ Finish("str", WindowUrl(2), 2)
                   /\ UNCHANGED <<browser, args, elems, typed, clicks, read>>
                   /\ UNCHANGED <<windows, opening, reviews, domReviews>>

NextGallery ==
    \/ CallGallery /\ UNCHANGED <<fixture, register>>
    \/ RenderGallery /\ UNCHANGED <<fixture, register>>
    \/ OpenWindow /\ UNCHANGED <<fixture, register>>
    \/ navigate_to_login_page /\ UNCHANGED <<fixture, gallery, register>>
    \/ login /\ UNCHANGED <<fixture, gallery, register>>
    \/ get_success_alert_message /\ UNCHANGED <<fixture, gallery, register>>
    \/ delete_last_car /\ UNCHANGED <<fixture, gallery, register>>
    \/ navigate_to_last_car_in_catalog /\ UNCHANGED <<fixture, gallery, register>>
    \/ add_manual_review_gallery /\ UNCHANGED <<fixture, register>>
    \/ get_user_new_review /\ UNCHANGED <<fixture, register>>
    \/ navigate_to_linkedin_page_and_get_current_url /\ UNCHANGED <<fixture, register>>

SpecGallery == Init /\ [][NextGallery]_vars

----------------------------------------------------------------------------
\* RegisterPage.generate_new_random_username (pages/register_page.py lines
\* 30-34).  Strings are sequences of characters.

\* string.digits, and the part of it the drawn digits come from.
DigitChars == <<"0", "1", "2", "3", "4", "5", "6", "7", "8", "9">>
Digits == {DigitChars[i + 1] : i \in 0..MaxDigit}

\* "Auto_username"
Prefix == <<"A", "u", "t", "o", "_", "u", "s", "e", "r", "n", "a", "m", "e">>

\* "Auto_username" + ''.join(random.choices(string.digits, k=3)): what it can be
AutoNames == {Prefix \o <<a, b, c>> : a \in Digits, b \in Digits, c \in Digits}

\* User names the application may hold.
UserPool == AutoNames \cup {<<"b", "o", "b">>}

RECURSIVE SetToSeq(_)
SetToSeq(S) ==
    IF S = {} THEN <<>>
    ELSE LET x == CHOOSE y \in S : TRUE IN <<x>> \o SetToSeq(S \ {x})

\* The lists of users: every list of up to MaxUsers names, and the list of
\* all generated names.
UserLists ==
    UNION {[1..n -> UserPool] : n \in 0..MaxUsers} \cup {SetToSeq(AutoNames)}

\* response.text of /get-users for a list of users: ["name","name"]
RECURSIVE Joined(_)
Joined(us) ==
    IF us = <<>> THEN <<>>
    ELSE <<"\"">> \o Head(us) \o <<"\"">> \o
         (IF Len(us) > 1 THEN <<",">> ELSE <<>>) \o Joined(Tail(us))

JsonText(us) == <<"[">> \o Joined(us) \o <<"]">>

\* What a scenario passes: the response text (test_auth.py line 169), or the
\* users as a list.
Inputs ==
    {[kind |-> "str", users |-> us, text |-> JsonText(us)] : us \in UserLists} \cup
    {[kind |-> "list", users |-> us, text |-> <<>>] : us \in UserLists}

\* x in t for strings: x occurs in t
IsSubstring(x, t) ==
    \E i \in 1..(Len(t) - Len(x) + 1) : SubSeq(t, i, i + Len(x) - 1) = x

\* The in operator as it would be if it never found anything.
In_never(x, e) == FALSE

\* random_username in existing_users
In(x, e) ==
    IF e.kind = "str" THEN IsSubstring(x, e.text)
    ELSE \E i \in 1..Len(e.users) : e.users[i] = x

CallGenerate ==
    /\ upc = "idle"
    /\ \E e \in Inputs : existing_users' = e
    /\ random_username' = <<>>
    /\ upc' = "line31"
    /\ UNCHANGED <<browser, call, fixture, gallery>>

\* line 31: random_username = existing_users[0]
generate_first ==
    /\ upc = "line31"
    /\ IF existing_users.kind = "str"
       THEN /\ random_username' = <<Head(existing_users.text)>>
            /\ upc' = "line32"
       ELSE IF existing_users.users = <<>>
       THEN /\ upc' = "IndexError"
            /\ UNCHANGED random_username
       ELSE /\ random_username' = Head(existing_users.users)
            /\ upc' = "line32"
    /\ UNCHANGED <<existing_users, browser, call, fixture, gallery>>

\* line 32: while random_username in existing_users; line 34: return
generate_test ==
    /\ upc = "line32"
    /\ upc' = IF In(random_username, existing_users) THEN "line33" ELSE "returned"
    /\ UNCHANGED <<existing_users, random_username, browser, call, fixture, gallery>>

\* line 33 with the three digits drawn making the name n
generate_draw(n) ==
    /\ upc = "line33"
    /\ random_username' = n
    /\ upc' = "line32"
    /\ UNCHANGED <<existing_users, browser, call, fixture, gallery>>

NextUsernames ==
    \/ CallGenerate
    \/ generate_first
    \/ generate_test
    \/ \E n \in AutoNames : generate_draw(n)

\* One call on a session that is not used for anything else.
InitUsernames == Init /\ catalog = 0

SpecUsernames == InitUsernames /\ [][NextUsernames]_vars

\* The same with a scheduler that lets the call run and a random source that
\* draws every name again and again.
FairUsernames ==
    /\ SpecUsernames
    /\ WF_vars(generate_first)
    /\ WF_vars(generate_test)
    /\ \A n \in AutoNames : SF_vars(generate_draw(n))

----------------------------------------------------------------------------
\* Properties

Exceptions == {"TimeoutException", "IndexError"}

\* The call in progress returns or raises in this step.
Ends(o) == op = o /\ op' = "idle"

\* C1: is_element_visible never raises: a probe of the add-car link ends in a
\* boolean, False when the link is not visible at the poll that times out and
\* True when it is visible.
C1_ProbeReturnsBoolean ==
    [][Ends("is_add_new_car_visible") =>
          /\ result'.kind = "bool"
          /\ result'.val = (IF Matches("ADD_NEW_CAR_BUTTON") > 0 THEN "True" ELSE "False")]_vars

\* C1 witness: a probe timed out and gave False.
C1_Witness ==
    /\ result.op = "is_add_new_car_visible"
    /\ result.kind = "bool"
    /\ result.val = "False"

\* C2: delete_last_car called with 6 or fewer delete controls in the document
\* returns False, clicks nothing and leaves the catalog as it was.
C2_AtOrBelowFloorReturnsFalse ==
    [][Ends("delete_last_car") /\ pc = 60 /\ Matches("DELETE_CAR_BUTTONS") <= 6 =>
          /\ result'.kind = "bool"
          /\ result'.val = "False"
          /\ clicks' = <<>>
          /\ catalog' = catalog]_vars

\* C3: a find_elements resolution that matches zero nodes when the timeout
\* elapses returns an empty sequence.
C3_ZeroNodesGiveEmptyList ==
    [][Ends("find_elements") /\ Matches(args.a) = 0 =>
          result'.kind = "list" /\ result'.n = 0]_vars

\* C3 amended: a find_elements resolution that matches zero nodes when the
\* timeout elapses raises TimeoutException and never returns an empty
\* sequence; it returns the matching nodes, at least one, otherwise.  The
\* count-based probe are_delete_buttons_visible turns the exception into False.
C3_ZeroNodesRaise ==
    [][/\ Ends("find_elements") =>
            IF Matches(args.a) = 0
            THEN result'.kind = "TimeoutException"
            ELSE result'.kind = "list" /\ result'.n = Matches(args.a) /\ result'.n >= 1
       /\ Ends("are_delete_buttons_visible") =>
            /\ result'.kind = "bool"
            /\ result'.val = (IF Matches("DELETE_CAR_BUTTONS") > 0 THEN "True" ELSE "False")]_vars

\* C3 witness: a find_elements call ended in TimeoutException.
C3_Witness ==
    /\ result.op = "find_elements"
    /\ result.kind = "TimeoutException"

\* C4: when the review field holds a generated review at the return of
\* get_ai_review_by_clicking_ai_review_button, the call returns that text.
C4_ReturnsReviewText ==
    [][Ends("get_ai_review_by_clicking_ai_review_button") /\ clicks # <<>> /\ review \in Reviews =>
          result'.kind = "str" /\ result'.val = review]_vars

\* C5: get_ai_review_by_clicking_ai_review_button never returns normally while
\* the review field is still empty.
C5_NoReturnWhileEmpty ==
    [][Ends("get_ai_review_by_clicking_ai_review_button") /\ result'.kind \notin Exceptions =>
          review' # ""]_vars

\* C6: a finished AI-review call that clicked the button gave either the
\* review text or the generation-timeout error, which is not the error of an
\* element that never rendered; it gave no other value.
C6_GenerationTimeoutIsNamed ==
    result.op = "get_ai_review_by_clicking_ai_review_button" =>
        /\ clicks = <<>> => result.kind = "TimeoutException"
        /\ clicks # <<>> =>
             \/ result.kind = "str" /\ result.val # ""
             \/ result.kind = "TimeoutExceededError"

\* C7: add_new_car returns a boolean only after the submit click and the
\* banner read, and the boolean is True if and only if the banner read is
\* "Car <make> <model> added successfully!" for the submitted make and model.
C7_AddResultIsBannerMatch ==
    result.op = "add_new_car" /\ result.kind = "bool" =>
        /\ Len(clicks) = 2 /\ clicks[2] = <<"SUBMIT_BUTTON", 0>>
        /\ read # NoAlert
        /\ result.val = "True" <=>
             read = "Car " \o args.a \o " " \o args.b \o " added successfully!"

\* C7 witness: make Tesla123, model ModelY456 was added and confirmed.
C7_Witness ==
    /\ result.op = "add_new_car"
    /\ args.a = "Tesla123" /\ args.b = "ModelY456"
    /\ read = "Car Tesla123 ModelY456 added successfully!"
    /\ result.val = "True"

\* C8: delete_last_car with more than 6 delete controls resolved clicks exactly
\* one control, the last of the list, and returns True if and only if the
\* banner then read is "Car deleted successfully!"; with no banner within the
\* timeout it returns False.
C8_DeleteClicksLastAndReportsBanner ==
    result.op = "delete_last_car" /\ elems > 6 =>
        /\ clicks = << <<"DELETE_CAR_BUTTONS", elems>> >>
        /\ result.kind = "bool"
        /\ result.val = "True" <=> read = "Car deleted successfully!"

\* C8 witness: a car was deleted from a list of more than 6 and confirmed.
C8_Witness ==
    /\ result.op = "delete_last_car"
    /\ elems > 6
    /\ result.val = "True"

\* C9: delete_last_car called with 0 to 6 delete controls in the document ends
\* in a returned False, never in an exception.
C9_RefusalIsControlled ==
    [][Ends("delete_last_car") /\ Matches("DELETE_CAR_BUTTONS") \in 0..6 /\ clicks = <<>> =>
          result'.kind \notin Exceptions]_vars

\* C10: whatever a Page operation gives the scenario is a boolean, a string,
\* nothing (a call made for its effect) or one of the two named errors; the
\* waiter's TimeoutException never reaches the scenario.
C10_NoRawTimeoutReachesScenario ==
    result.op \in {"login", "logout", "get_success_alert_message",
                   "get_unsuccessful_alert_message", "get_success_message",
                   "add_new_car", "delete_last_car", "navigate_to_add_new_car_form",
                   "navigate_to_last_car_in_catalog",
                   "get_ai_review_by_clicking_ai_review_button"} =>
        result.kind \in {"bool", "str", "None", "NotFoundError", "TimeoutExceededError"}

\* The Page actions that navigate or make a server round-trip.
RoundTripOps ==
    {"login", "logout", "navigate_to_add_new_car_form",
     "navigate_to_last_car_in_catalog", "add_manual_review", "submit_ai_review",
     "add_new_car", "delete_last_car"}

\* C11: a navigating or round-trip Page action that has clicked and returned
\* has observed, after the click and before returning, the next screen's
\* element or the Outcome banner.  The only lookups the operations make after
\* a click are the banner reads of add_new_car and delete_last_car.
C11_ReturnsOnlyAfterObservation ==
    /\ result.op \in RoundTripOps
    /\ result.kind \in {"None", "bool"}
    /\ clicks # <<>>
    => read # NoAlert

\* C12: an outcome read that gets text reads the banner of the most recent
\* triggering action: at the moment of the read no answer page is still
\* outstanding, so the text is never one left by an earlier action.
C12_ReadsBannerOfLatestAction ==
    [][read = NoAlert /\ read' # NoAlert => pending = NoPage]_vars

\* C13: login with valid admin credentials, then logout, then the outcome
\* read: the text read is exactly "You have been logged out.".
C13_LogoutRoundTrip ==
    /\ result.op = "get_success_alert_message"
    /\ result.after = "login_admin_logout"
    /\ result.kind = "str"
    => result.val = LoggedOut

\* C14: BasePage.find_element ends by returning one element when the locator
\* matches at a poll within the timeout, and ends in the waiter's
\* TimeoutException, after the last poll, when it has matched at none; it
\* never returns a missing element.
C14_FindElementReturnsOrFails ==
    [][Ends("find_element") =>
          /\ Matches(args.a) > 0 => result'.kind = "element" /\ result'.n = 1
          /\ Matches(args.a) = 0 =>
                result'.kind = "TimeoutException" /\ polls + 1 = MaxPolls]_vars

\* C14 witness: a find_element whose locator matched at no poll has failed.
C14_Witness ==
    /\ result.op = "find_element"
    /\ result.kind = "TimeoutException"
    /\ Matches(args.a) = 0

\* C15: USERNAME_INPUT, PASSWORD_INPUT, LOGIN_BUTTON and LOGOUT_BUTTON have on
\* DashboardPage and RegisterPage the value they have on LoginPage, and a
\* login or logout that returned has looked up and clicked exactly LoginPage's
\* elements, whichever page object it was called through.
C15_AuthLocatorsShared ==
    /\ \A k \in PageClasses : \A n \in AuthLocators : getattr(k, n) = LoginPageAttrs[n]
    /\ result.op = "login" /\ result.kind = "None" =>
          /\ typed = <<"USERNAME_INPUT", "PASSWORD_INPUT">>
          /\ clicks = << <<"LOGIN_BUTTON", 0>> >>
    /\ result.op = "logout" /\ result.kind = "None" =>
          /\ typed = <<>>
          /\ clicks = << <<"LOGOUT_BUTTON", 0>> >>

\* C15 witness: a login made through a RegisterPage object has returned.
C15_Witness ==
    /\ result.op = "login"
    /\ result.kind = "None"
    /\ args.self = "RegisterPage"

\* C17: are_delete_buttons_visible always ends by returning a boolean: True
\* when at least one delete control is present at a poll within the timeout,
\* False when the last poll of the timeout still finds none.
C17_DeleteProbeReturnsBoolean ==
    [][Ends("are_delete_buttons_visible") =>
          /\ result'.kind = "bool"
          /\ result'.val = "True" <=> Matches("DELETE_CAR_BUTTONS") >= 1
          /\ result'.val = "False" <=>
                Matches("DELETE_CAR_BUTTONS") = 0 /\ polls + 1 = MaxPolls]_vars

\* C17 witness: the probe has answered False on a page without delete controls.
C17_Witness ==
    /\ result.op = "are_delete_buttons_visible"
    /\ result.kind = "bool"
    /\ result.val = "False"
    /\ Matches("DELETE_CAR_BUTTONS") = 0

\* The two privileged-action probes.
Probes == {"is_add_new_car_visible", "are_delete_buttons_visible"}

C19_OwnSessionAlwaysQuit ==
    /\ \A s \in Scenarios : \A t \in Scenarios :
          s # t /\ scen[s].driver # 0 /\ scen[t].driver # 0 =>
              scen[s].driver # scen[t].driver
    /\ \A s \in Scenarios :
          /\ scen[s].phase = "done" => scen[s].driver \in quit
          /\ scen[s].phase \in {"login", "line60", "line63", "teardown"} =>
                scen[s].driver \notin quit

\* C19 witness: one scenario passed and another did not, and both drivers,
\* two different ones, are quit.
C19_Witness ==
    \E s \in Scenarios : \E t \in Scenarios :
        /\ scen[s].phase = "done" /\ scen[s].outcome = "passed"
        /\ scen[t].phase = "done" /\ scen[t].outcome \in {"failed", "raised"}
        /\ scen[s].driver # scen[t].driver
        /\ {scen[s].driver, scen[t].driver} \subseteq quit

\* What test_015 ends with when it runs alone against a catalog of c cars.
AloneOutcome(c) ==
    CASE c = 0 -> "raised"
      [] AboveSafetyFloor(c) -> "passed"
      [] OTHER -> "failed"

\* C20: a scenario running beside others ends as it would alone against the
\* catalog it found, and the scenarios together never take a catalog that was
\* at or above the safety floor below it.
C20_ScenariosDoNotInterfere ==
    /\ \A s \in Scenarios :
          scen[s].outcome # "none" => scen[s].outcome = AloneOutcome(scen[s].shown)
    /\ (\E s \in Scenarios : scen[s].outcome = "passed") => catalog >= SafetyFloor

\* C23: login fills the username field, then the password field, then clicks
\* submit, the same for valid and invalid credentials; it reads no banner and
\* returns nothing.
C23_LoginStepsSharedNoOutcome ==
    [][op = "login" =>
          /\ read' = NoAlert
          /\ typed' # typed =>
                \/ pc = 24 /\ typed = <<>> /\ typed' = <<"USERNAME_INPUT">>
                \/ pc = 25 /\ typed' = <<"USERNAME_INPUT", "PASSWORD_INPUT">>
          /\ clicks' # clicks =>
                /\ pc = 26
                /\ typed = <<"USERNAME_INPUT", "PASSWORD_INPUT">>
                /\ clicks' = << <<"LOGIN_BUTTON", 0>> >>
                /\ op' = "idle"
          /\ op' = "idle" /\ result'.kind # "TimeoutException" =>
                /\ clicks' = << <<"LOGIN_BUTTON", 0>> >>
                /\ result'.kind = "None"
                /\ result'.val = ""]_vars

\* C23 witness: a login with invalid credentials has returned after the same
\* three steps.
C23_Witness ==
    /\ result.op = "login"
    /\ result.kind = "None"
    /\ RoleOf(args.a, args.b) = "none"
    /\ typed = <<"USERNAME_INPUT", "PASSWORD_INPUT">>
    /\ clicks = << <<"LOGIN_BUTTON", 0>> >>
    /\ pending.alert = LoginFailed

\* C25: no step takes a catalog of 6 or more cars below 6, and a
\* delete_last_car call clicks at most one delete control and removes at most
\* one car.
C25_FloorKeptOneAtATime ==
    [][/\ catalog >= SafetyFloor => catalog' >= SafetyFloor
       /\ op = "delete_last_car" =>
             /\ catalog' >= catalog - 1
             /\ Len(clicks') <= 1
             /\ catalog' # catalog => clicks = <<>>]_vars

\* C25 witness: a delete_last_car took the catalog down to the floor.
C25_Witness ==
    /\ result.op = "delete_last_car"
    /\ result.val = "True"
    /\ catalog = SafetyFloor
    /\ elems = SafetyFloor + 1

\* The fields add_new_car fills, in order.
AddCarFields ==
    <<"MAKE_INPUT", "MODEL_INPUT", "DIRECTOR_INPUT", "MAIN_SETTINGS_INPUT",
      "DESCRIPTION_INPUT", "IMAGE_INPUT">>

\* C29: while and after add_new_car runs, the fields typed into are a prefix
\* of make, model, director, settings, description, image, with the year
\* clicked between model and director; submit is clicked only with all of
\* them filled; a call that ended in a timeout of a field lookup has clicked
\* no submit, read no outcome and not returned True.
C29_SubmitOnlyAfterAllFields ==
    (op = "add_new_car" \/ (op = "idle" /\ result.op = "add_new_car")) =>
        /\ Len(typed) <= Len(AddCarFields)
        /\ typed = SubSeq(AddCarFields, 1, Len(typed))
        /\ (\E i \in 1..Len(clicks) : clicks[i][1] = "YEAR_SELECT") => Len(typed) >= 2
        /\ Len(typed) >= 3 => clicks # <<>> /\ clicks[1] = <<"YEAR_SELECT", 1>>
        /\ (\E i \in 1..Len(clicks) : clicks[i][1] = "SUBMIT_BUTTON") =>
              typed = AddCarFields
        /\ read # NoAlert => clicks = << <<"YEAR_SELECT", 1>>, <<"SUBMIT_BUTTON", 0>> >>
        /\ result.kind = "TimeoutException" /\ typed # AddCarFields =>
              /\ \A i \in 1..Len(clicks) : clicks[i][1] # "SUBMIT_BUTTON"
              /\ read = NoAlert
              /\ result.val # "True"
        /\ result.val = "True" => typed = AddCarFields /\ read # NoAlert

\* C29 witness: add_new_car ended in a timeout with the form partly filled.
C29_Witness ==
    /\ result.op = "add_new_car"
    /\ result.kind = "TimeoutException"
    /\ Len(typed) \in 1..5

\* C27: find_elements gives its caller one element or more, and the
\* operations that take the last element of its list, or count it, never end
\* in an IndexError.
C27_LastElementAlwaysExists ==
    /\ result.kind # "IndexError" \/
          result.op \notin {"navigate_to_last_car_in_catalog", "get_user_new_review",
                            "delete_last_car"}
    /\ /\ result.op \in {"navigate_to_last_car_in_catalog", "get_user_new_review"}
       /\ result.kind \in {"None", "str"}
       => elems >= 1
    /\ result.op = "delete_last_car" /\ clicks # <<>> =>
          clicks[1][2] \in 1..elems

\* C27 witness: get_user_new_review on a car page without reviews ended in
\* the waiter's timeout.
C27_Witness ==
    /\ result.op = "get_user_new_review"
    /\ result.kind = "TimeoutException"
    /\ screen = "car"
    /\ domReviews = 0
    /\ ActiveWindow = 1

\* C28: navigate_to_linkedin_page_and_get_current_url, once it has clicked the
\* icon, finds a second window handle and returns the URL of the window the
\* click opened.
C28_SecondWindowAlwaysThere ==
    result.op = "navigate_to_linkedin_page_and_get_current_url" /\ clicks # <<>> =>
        /\ result.kind = "str"
        /\ result.val = WindowUrl(2)

\* C21: all Pages hold the one driver of the session, so they look at the
\* same active window; once a DashboardPage call has switched to the second
\* window, a call made through any Page, a LoginPage included, is answered by
\* that window, where the banner of the application is not found.
C21_PagesShareSessionState ==
    /\ \A p \in PageClasses : \A q \in PageClasses :
          /\ DriverOf(p) = DriverOf(q)
          /\ active[DriverOf(p)] = active[DriverOf(q)]
    /\ /\ result.op = "get_success_alert_message"
       /\ active[DriverOf("DashboardPage")] = 2
       => result.kind = "TimeoutException"

\* C21 witness: after the switch made through the DashboardPage a read made
\* through a LoginPage has looked at the second window.
C21_Witness ==
    /\ result.op = "get_success_alert_message"
    /\ args.self = "LoginPage"
    /\ active[DriverOf("DashboardPage")] = 2
    /\ result.kind = "TimeoutException"
    /\ alert # NoAlert

\* The decimal digits.
DecimalDigits == {DigitChars[i] : i \in 1..10}

\* C26: a name generate_new_random_username returns is "Auto_username" and
\* exactly three decimal digits more, and is not one of the existing users
\* (not in the list, not named in the text).
C26_ReturnsFreshAutoName ==
    upc = "returned" =>
        /\ Len(random_username) = Len(Prefix) + 3
        /\ SubSeq(random_username, 1, Len(Prefix)) = Prefix
        /\ \A i \in (Len(Prefix) + 1)..Len(random_username) :
              random_username[i] \in DecimalDigits
        /\ \A i \in 1..Len(existing_users.users) :
              existing_users.users[i] # random_username

\* C26 witness: a name was returned for a response text that names a
\* generated name already.
C26_Witness ==
    /\ upc = "returned"
    /\ existing_users.kind = "str"
    /\ \E i \in 1..Len(existing_users.users) : existing_users.users[i] \in AutoNames

\* C22: a call of generate_new_random_username ends: it returns or raises.
C22_GenerateTerminates ==
    upc = "line31" ~> upc \in {"returned", "IndexError"}

\* test_011_delete_action_displayed_for_admin, lines 152-156, for the value
\* are_delete_buttons_visible returned: the assert of line 153 raises
\* AssertionError on False, the except clause of line 155 catches it and logs,
\* and the test function returns normally either way.
test_011_delete_action_displayed_for_admin(visible) ==
    LET asserted == IF visible = "True" THEN "ok" ELSE "AssertionError"
    IN  CASE asserted = "ok" -> "passed"
          [] asserted = "AssertionError" -> "passed"

\* C24: when are_delete_buttons_visible, called right after the admin login as
\* scenario 11 calls it, returns False, scenario 11 fails with an
\* AssertionError.
C24_Scenario11FailsWithoutButtons ==
    /\ result.op = "are_delete_buttons_visible"
    /\ result.after = "login_admin"
    /\ result.val = "False"
    => test_011_delete_action_displayed_for_admin(result.val) = "AssertionError"

====
